---------------------------- MODULE Spec2Model ----------------------------
(***************************************************************************)
(* A model of the binary stem tree (src/src/tree.rs) and of the key        *)
(* embedding (src/src/embedding.rs).                                       *)
(*                                                                         *)
(* Scaling.  The tree's algorithms are written over byte arrays whose      *)
(* sizes are fixed numbers in the source; the model keeps every algorithm  *)
(* and shrinks the sizes:                                                   *)
(*   - a byte has ByteBits bits (8 in the source),                         *)
(*   - a stem has StemLen bytes (31 in the source), so a stem has          *)
(*     StemBits = StemLen * ByteBits bits (248 in the source) and the      *)
(*     assertion `depth < 248` of insert_rec reads depth < StemBits,       *)
(*   - a stem leaf has SubWidth value slots (256 in the source).           *)
(*                                                                         *)
(* Hashing.  A 32-byte block is either the all-zero block (Zero32), a      *)
(* block of known bytes that are not all zero ("raw"), or the BLAKE3       *)
(* digest of a sequence of blocks ("digest").  Digests are terms: two      *)
(* digests are equal iff their inputs are equal, and a digest never equals *)
(* Zero32 or a raw block (the hash is collision free).  BinaryTree::hash   *)
(* keeps its two exceptions: the empty input and the input of 64 zero      *)
(* bytes (two Zero32 blocks) hash to Zero32.                               *)
(***************************************************************************)
EXTENDS Integers, Sequences, FiniteSets, TLC

\* ------------------------------------------------------------------ sizes

\* Bits per byte: `(0..8)` in bytes_to_bits; scaled from 8.
ByteBits == 2

\* Bytes per stem: `stem: [u8; 31]`; scaled from 31.
StemLen == 2

\* Value slots per stem leaf: `values: [Option<Vec<u8>>; 256]`; scaled from 256.
SubWidth == 2

\* Bits per stem: the 248 of `assert!(depth < 248)` is 31 * 8.
StemBits == StemLen * ByteBits

\* ----------------------------------------------------------------- bounds

\* The number of insert calls of one run.
MaxInserts == 3

\* The longest sibling path of a proof record offered to verify_proof.
MaxForgedPath == 1

\* ----------------------------------------------------------------- inputs

\* The stems the callers draw keys from: 0000, 0001, 0010, 0100, 1000, 1001
\* (bits, most significant first).  The pairs share bit prefixes of every
\* length 0..3, and two pairs differ in the last stem bit only.
StemPool == {<<0, 0>>, <<0, 1>>, <<0, 2>>, <<1, 0>>, <<2, 0>>, <<2, 1>>}

\* A key is its stem followed by the subindex byte (key[31] in the source).
Keys == {Append(s, i) : s \in StemPool, i \in 0..(SubWidth - 1)}

\* The values the callers insert, as byte strings ([u8; 32] in the source);
\* <<0>> is the present-but-zero value.
ValuePool == {<<0>>, <<7>>}

\* ------------------------------------------------------------- arithmetic

RECURSIVE Pow2(_)
Pow2(n) == IF n = 0 THEN 1 ELSE 2 * Pow2(n - 1)

Max(a, b) == IF a >= b THEN a ELSE b

\* key[..31]
StemOf(key) == SubSeq(key, 1, StemLen)

\* key[31] as usize
SubindexOf(key) == key[StemLen + 1]

\* Bit d (0-based) of a bit vector; the source indexes with stem_bits[d].
BitAt(bits, d) == bits[d + 1]

\* bytes_to_bits: each byte's bits from the most significant down, bytes in order.
bytes_to_bits(bytes) ==
    [j \in 1..(Len(bytes) * ByteBits) |->
        LET byte == bytes[((j - 1) \div ByteBits) + 1]
            i    == (ByteBits - 1) - ((j - 1) % ByteBits)
        IN  (byte \div Pow2(i)) % 2]

\* bytes_to_bits_static is the same function outside of &self.
bytes_to_bits_static(bytes) == bytes_to_bits(bytes)

\* ------------------------------------------------------------------ nodes

\* Option::None of a node.
None == [kind |-> "none"]

\* Option<Vec<u8>>: <<>> is None, <<v>> is Some(v).
NoValue == <<>>

Some(v) == <<v>>

\* StemNode::new
StemNode_new(stem) ==
    [kind |-> "stem", stem |-> stem, values |-> [i \in 1..SubWidth |-> NoValue]]

\* A set_value that starts from an empty value array.
set_value_clearing(node, index, value) ==
    [StemNode_new(node.stem) EXCEPT !.values[index + 1] = Some(value)]

\* StemNode::set_value
set_value(node, index, value) ==
    [node EXCEPT !.values[index + 1] = Some(value)]

\* InternalNode::new
InternalNode_new == [kind |-> "internal", left |-> None, right |-> None]

\* The outcome of a call that panicked: the failed depth assertion of
\* insert_rec, or an index past the end of a bit vector.
Panic(why) == [kind |-> "panic", why |-> why]

IsPanic(r) == r.kind = "panic"

\* ----------------------------------------------------------------- insert

\* split_leaf with the two leaves on the wrong sides of the splitting node.
RECURSIVE split_leaf_swapped(_, _, _, _, _, _)
split_leaf_swapped(leaf, stem, subindex, value, existing_stem_bits, depth) ==
    LET stem_bits == bytes_to_bits(stem) IN
    IF depth >= Len(stem_bits) \/ depth >= Len(existing_stem_bits)
    THEN Panic("index")
    ELSE
      LET bit == BitAt(stem_bits, depth) IN
      IF bit = BitAt(existing_stem_bits, depth)
      THEN LET sub == split_leaf_swapped(leaf, stem, subindex, value,
                                         existing_stem_bits, depth + 1)
           IN  IF IsPanic(sub) THEN sub
               ELSE IF bit = 0
                    THEN [InternalNode_new EXCEPT !.left = sub]
                    ELSE [InternalNode_new EXCEPT !.right = sub]
      ELSE LET new_stem_node == set_value(StemNode_new(stem), subindex, value)
           IN  IF bit = 0
               THEN [InternalNode_new EXCEPT !.right = new_stem_node, !.left = leaf]
               ELSE [InternalNode_new EXCEPT !.left = new_stem_node, !.right = leaf]

RECURSIVE split_leaf(_, _, _, _, _, _)
split_leaf(leaf, stem, subindex, value, existing_stem_bits, depth) ==
    LET stem_bits == bytes_to_bits(stem) IN
    IF depth >= Len(stem_bits) \/ depth >= Len(existing_stem_bits)
    THEN Panic("index")
    ELSE
      LET bit == BitAt(stem_bits, depth) IN
      IF bit = BitAt(existing_stem_bits, depth)
      THEN LET sub == split_leaf(leaf, stem, subindex, value,
                                 existing_stem_bits, depth + 1)
           IN  IF IsPanic(sub) THEN sub
               ELSE IF bit = 0
                    THEN [InternalNode_new EXCEPT !.left = sub]
                    ELSE [InternalNode_new EXCEPT !.right = sub]
      ELSE LET new_stem_node == set_value(StemNode_new(stem), subindex, value)
           IN  IF bit = 0
               THEN [InternalNode_new EXCEPT !.left = new_stem_node, !.right = leaf]
               ELSE [InternalNode_new EXCEPT !.right = new_stem_node, !.left = leaf]

RECURSIVE insert_rec(_, _, _, _, _)
insert_rec(node, stem, subindex, value, depth) ==
    IF ~(depth < StemBits) THEN Panic("depth")
    ELSE IF node.kind = "none"
    THEN set_value(StemNode_new(stem), subindex, value)
    ELSE IF node.kind = "stem"
    THEN IF node.stem = stem
         THEN set_value(node, subindex, value)
         ELSE split_leaf(node, stem, subindex, value, bytes_to_bits(node.stem), depth)
    ELSE LET stem_bits == bytes_to_bits(stem)
             bit       == BitAt(stem_bits, depth)
             child     == insert_rec(IF bit = 0 THEN node.left ELSE node.right,
                                     stem, subindex, value, depth + 1)
         IN  IF IsPanic(child) THEN child
             ELSE IF bit = 0
                  THEN [node EXCEPT !.left = child]
                  ELSE [node EXCEPT !.right = child]

\* BinaryTree::insert on a tree whose root is r: the root it leaves and how
\* the call ended.  `self.root.take()` empties self.root before insert_rec
\* runs, and the assignment of its result is not reached when it panics.
insert(r, key, value) ==
    LET stem     == StemOf(key)
        subindex == SubindexOf(key)
    IN  IF r.kind = "none"
        THEN [root  |-> set_value(StemNode_new(stem), subindex, value),
              panic |-> "none"]
        ELSE LET res == insert_rec(r, stem, subindex, value, 0)
             IN  IF IsPanic(res)
                 THEN [root |-> None, panic |-> res.why]
                 ELSE [root |-> res, panic |-> "none"]

\* ---------------------------------------------------------------- hashing

\* [0; 32]
Zero32 == [kind |-> "zero"]

\* A 32-byte block of known bytes.
Bytes32(bytes) ==
    IF \A i \in 1..Len(bytes) : bytes[i] = 0
    THEN Zero32
    ELSE [kind |-> "raw", bytes |-> bytes]

\* [0; 64]
Zero64 == <<Zero32, Zero32>>

\* BinaryTree::hash over a sequence of 32-byte blocks.
hash(data) ==
    IF data = <<>> \/ data = Zero64
    THEN Zero32
    ELSE [kind |-> "digest", input |-> data]

\* opt.as_deref().unwrap_or(&[0; 64]) of one value slot.
SlotData(opt) == IF opt = NoValue THEN Zero64 ELSE <<Bytes32(opt[1])>>

\* One round of `for pair in level.chunks(2)`: a pair hashes as a || b, a lone
\* last element as itself.
next_level(level) ==
    [j \in 1..((Len(level) + 1) \div 2) |->
        IF 2 * j <= Len(level)
        THEN hash(<<level[2 * j - 1], level[2 * j]>>)
        ELSE hash(<<level[2 * j - 1]>>)]

\* while level.len() > 1 { ... }
RECURSIVE fold_levels(_)
fold_levels(level) ==
    IF Len(level) > 1 THEN fold_levels(next_level(level)) ELSE level

\* The buffer stem || 0 || level[0] and its hash.
stem_hash(stem, level) == hash(<<Bytes32(Append(stem, 0)), level[1]>>)

\* _merkelize, the recursion of BinaryTree::merkelize.
RECURSIVE merkelize_rec(_)
merkelize_rec(tree) ==
    IF tree.kind = "none" THEN Zero32
    ELSE IF tree.kind = "internal"
    THEN hash(<<merkelize_rec(tree.left), merkelize_rec(tree.right)>>)
    ELSE stem_hash(tree.stem,
                   fold_levels([i \in 1..SubWidth |-> hash(SlotData(tree.values[i]))]))

\* BinaryTree::merkelize
merkelize(r) == merkelize_rec(r)

\* BinaryTree::hash_node, get_proof's own copy of the node hash.
RECURSIVE hash_node(_)
hash_node(node) ==
    IF node.kind = "none" THEN Zero32
    ELSE IF node.kind = "internal"
    THEN hash(<<hash_node(node.left), hash_node(node.right)>>)
    ELSE stem_hash(node.stem,
                   fold_levels([i \in 1..SubWidth |-> hash(SlotData(node.values[i]))]))

\* ----------------------------------------------------------------- proofs

\* Option<MerkleProof>: <<>> is None, <<p>> is Some(p).
NoProof == <<>>

\* The `while let TreeNode::Internal(node) = current` loop of get_proof and
\* the match on the stem leaf it ends at.
RECURSIVE get_proof_walk(_, _, _, _, _)
get_proof_walk(current, stem, subindex, depth, path) ==
    IF current.kind = "internal"
    THEN LET stem_bits == bytes_to_bits(stem) IN
         IF depth >= Len(stem_bits) THEN NoProof
         ELSE LET bit       == BitAt(stem_bits, depth)
                  next_node == IF bit = 0 THEN current.left ELSE current.right
                  sibling   == IF bit = 0 THEN current.right ELSE current.left
                  path1     == Append(path, hash_node(sibling))
              IN  IF next_node.kind = "none" THEN NoProof
                  ELSE get_proof_walk(next_node, stem, subindex, depth + 1, path1)
    ELSE IF current.stem # stem THEN NoProof
    ELSE <<[path     |-> path,
            value    |-> current.values[subindex + 1],
            subindex |-> subindex,
            stem     |-> stem]>>

\* BinaryTree::get_proof
get_proof(r, key) ==
    IF r.kind = "none" THEN NoProof
    ELSE get_proof_walk(r, StemOf(key), SubindexOf(key), 0, <<>>)

\* The sibling fold reading the stem bits from the first on, not in reverse.
RECURSIVE verify_fold_forward(_, _, _, _)
verify_fold_forward(leaf_hash, path, stem_bits, depth) ==
    IF depth >= Len(path) THEN leaf_hash
    ELSE LET sibling_hash == path[Len(path) - depth]
             bit          == IF depth < Len(stem_bits) THEN BitAt(stem_bits, depth) ELSE 0
             combined     == IF bit = 0
                             THEN <<leaf_hash, sibling_hash>>
                             ELSE <<sibling_hash, leaf_hash>>
         IN  verify_fold_forward(hash(combined), path, stem_bits, depth + 1)

\* The sibling fold of verify_proof: step `depth` of path.iter().rev().
RECURSIVE verify_fold(_, _, _, _)
verify_fold(leaf_hash, path, stem_bits, depth) ==
    IF depth >= Len(path) THEN leaf_hash
    ELSE LET sibling_hash == path[Len(path) - depth]
             idx          == Len(path) - 1 - depth
             bit          == IF idx < Len(stem_bits) THEN BitAt(stem_bits, idx) ELSE 0
             combined     == IF bit = 0
                             THEN <<leaf_hash, sibling_hash>>
                             ELSE <<sibling_hash, leaf_hash>>
         IN  verify_fold(hash(combined), path, stem_bits, depth + 1)

\* verify_proof; the key argument is not read by the code.
verify_proof(proof, root_hash, key) ==
    LET level == [i \in 1..SubWidth |->
                     IF i - 1 = proof.subindex
                     THEN hash(SlotData(proof.value))
                     ELSE hash(Zero64)]
        leaf_hash == stem_hash(proof.stem, fold_levels(level))
    IN  verify_fold(leaf_hash, proof.path, bytes_to_bits_static(proof.stem), 0)
            = root_hash

\* -------------------------------------------------------------- embedding

BASIC_DATA_LEAF_KEY == 0

CODE_HASH_LEAF_KEY == 1

HEADER_STORAGE_OFFSET == 64

CODE_OFFSET == 128

STEM_SUBTREE_WIDTH == 256

MAIN_STORAGE_OFFSET == 256

\* The number of values of a u8.
U8Range == 256

\* The number of bytes of a u64.
U64Bytes == 8

\* The largest storage key and chunk id the callers pass.
MaxStorageKey == 70

MaxChunkId == 260

\* The 32-byte addresses the callers pass, as short byte strings.
AddressPool == {<<66, 66>>, <<0, 1>>}

\* The `count` low bytes of n, the least significant first.
RECURSIVE le_bytes(_, _)
le_bytes(n, count) ==
    IF count = 0 THEN <<>>
    ELSE <<n % U8Range>> \o le_bytes(n \div U8Range, count - 1)

\* u64::to_le_bytes
to_le_bytes(n) == le_bytes(n, U64Bytes)

\* tree_hash: the BLAKE3 digest of a byte string, with no exception.
tree_hash(inp) == [kind |-> "digest", input |-> inp]

\* get_tree_key: bytes 0..31 of the key are bytes 0..31 of the digest (a term
\* of the digest: equal prefixes come from equal digests), byte 31 is sub_index.
get_tree_key(addr, tree_index, sub_index) ==
    LET key_input == addr \o to_le_bytes(tree_index)
        digest    == tree_hash(key_input)
    IN  [stem |-> [kind |-> "prefix31", of |-> digest], last |-> sub_index]

get_tree_key_for_basic_data(addr) == get_tree_key(addr, 0, BASIC_DATA_LEAF_KEY)

get_tree_key_for_code_hash(addr) == get_tree_key(addr, 0, CODE_HASH_LEAF_KEY)

\* get_tree_key_for_storage_slot with the header range ending at CODE_OFFSET.
get_tree_key_for_storage_slot_wide(addr, storage_key) ==
    LET pos == IF storage_key < CODE_OFFSET
               THEN HEADER_STORAGE_OFFSET + storage_key
               ELSE MAIN_STORAGE_OFFSET + storage_key
    IN  get_tree_key(addr, pos \div STEM_SUBTREE_WIDTH, pos % STEM_SUBTREE_WIDTH)

get_tree_key_for_storage_slot(addr, storage_key) ==
    LET pos == IF storage_key < (CODE_OFFSET - HEADER_STORAGE_OFFSET)
               THEN HEADER_STORAGE_OFFSET + storage_key
               ELSE MAIN_STORAGE_OFFSET + storage_key
    IN  get_tree_key(addr, pos \div STEM_SUBTREE_WIDTH, pos % STEM_SUBTREE_WIDTH)

get_tree_key_for_code_chunk(addr, chunk_id) ==
    get_tree_key(addr,
                 (CODE_OFFSET + chunk_id) \div STEM_SUBTREE_WIDTH,
                 (CODE_OFFSET + chunk_id) % STEM_SUBTREE_WIDTH)

\* ------------------------------------------------- embedding: code chunks

\* The bytes of code in a chunk (31 in the source, scaled with the push width).
ChunkLen == 3

PUSH_OFFSET == 95

\* The widest push (32 in the source: one byte more than a chunk holds).
MaxPushWidth == 4

PUSH1 == PUSH_OFFSET + 1

PUSH32 == PUSH_OFFSET + MaxPushWidth

\* The bytes bytes_to_exec_data has beyond the padded code (32 in the source).
ExecDataSlack == 4

\* The longest bytecode the callers pass.
MaxCodeLen == 7

\* The bytes of the bytecodes: STOP, JUMPDEST, the narrowest and widest push.
CodeBytePool == {0, 91, PUSH1, PUSH32}

CodePool == UNION {[1..n -> CodeBytePool] : n \in 0..MaxCodeLen}

\* vec![0; n]
zeros(n) == [j \in 1..n |-> 0]

\* padded_code: the code extended with zeros to a multiple of the chunk length,
\* extending by a whole chunk also when the length is already a multiple.
padded_code_always(code) ==
    code \o zeros(ChunkLen - (Len(code) % ChunkLen))

\* padded_code: the code extended with zeros to a multiple of the chunk length.
padded_code(code) ==
    IF Len(code) % ChunkLen # 0
    THEN code \o zeros(ChunkLen - (Len(code) % ChunkLen))
    ELSE code

\* The while loop over padded_code from position pos (0-based), filling
\* bytes_to_exec_data; a write past the end of the vector is skipped (get_mut).
RECURSIVE exec_data_scan(_, _, _)
exec_data_scan(padded, pos, bytes_to_exec_data) ==
    IF pos >= Len(padded) THEN bytes_to_exec_data
    ELSE LET op == padded[pos + 1]
             pushdata_bytes == IF op \in PUSH1..PUSH32
                               THEN op - PUSH_OFFSET ELSE 0
             pos1 == pos + 1
             written_data ==
                 [j \in 1..Len(bytes_to_exec_data) |->
                     IF j - 1 >= pos1 /\ j - 1 < pos1 + pushdata_bytes
                     THEN pushdata_bytes - (j - 1 - pos1)
                     ELSE bytes_to_exec_data[j]]
         IN  exec_data_scan(padded, pos1 + pushdata_bytes, written_data)

\* chunkify_code: the list of (ChunkLen + 1)-byte chunks of a bytecode.
chunkify_code(code) ==
    LET padded == padded_code(code)
        bytes_to_exec_data ==
            exec_data_scan(padded, 0, zeros(Len(padded) + ExecDataSlack))
        nchunks == Len(padded) \div ChunkLen
    IN  [i \in 1..nchunks |->
            LET chunk == SubSeq(padded, (i - 1) * ChunkLen + 1, i * ChunkLen)
                exec_data_byte == bytes_to_exec_data[(i - 1) * ChunkLen + 1]
            IN  [j \in 1..(ChunkLen + 1) |->
                    IF j = 1 THEN exec_data_byte
                    ELSE IF j - 1 <= Len(chunk) THEN chunk[j - 1] ELSE 0]]

\* No chunkify_code call made yet.
NoChunks == <<>>

\* ------------------------------------------------------------------ state

VARIABLES
    root,       \* BinaryTree.root
    panic,      \* how the last insert call ended: "none", or the panic's cause
    written,    \* per key, the value of the most recent insert call (history)
    ninserts,   \* the number of insert calls made (history)
    proof,      \* the result of the last get_proof call
    asked,      \* the key of the last get_proof call
    verdict,    \* the result of the last verify_proof call
    address,    \* the address the embedding functions are called with
    item,       \* the state item of the last embedding call
    tree_key,   \* the key the last embedding call returned
    code,       \* the bytecode chunkify_code is called with
    chunks      \* the chunks the chunkify_code call returned

treeVars == <<root, panic, written, ninserts, proof, asked, verdict>>

embVars == <<address, item, tree_key>>

chunkVars == <<code, chunks>>

vars == <<root, panic, written, ninserts, proof, asked, verdict,
          address, item, tree_key, code, chunks>>

\* BinaryTree::new, and no call made yet.
TreeInit ==
    /\ root = None
    /\ panic = "none"
    /\ written = [k \in Keys |-> NoValue]
    /\ ninserts = 0
    /\ proof = NoProof
    /\ asked = <<>>
    /\ verdict = "unset"

\* A run of the tree: a caller inserts, then asks for one proof and verifies
\* it.  get_proof and verify_proof take &self and leave the tree as it is, so
\* a second query of the same tree reaches nothing the first does not; every
\* pair of a reachable tree and a key is queried.

\* tree.insert(key, value).  A panic unwinds the caller: no further insert
\* is issued on the tree, which stays readable.
Insert(key, value) ==
    /\ panic = "none"
    /\ asked = <<>>
    /\ ninserts < MaxInserts
    /\ LET res == insert(root, key, value)
       IN  /\ root' = res.root
           /\ panic' = res.panic
    /\ written' = [written EXCEPT ![key] = Some(value)]
    /\ ninserts' = ninserts + 1
    /\ UNCHANGED <<proof, asked, verdict, embVars, chunkVars>>

\* tree.get_proof(key)
GetProof(key) ==
    /\ asked = <<>>
    /\ proof' = get_proof(root, key)
    /\ asked' = key
    /\ UNCHANGED <<root, panic, written, ninserts, verdict, embVars, chunkVars>>

\* verify_proof(&proof, tree.merkelize(), key) on the proof returned.
VerifyProof ==
    /\ proof # NoProof
    /\ verdict = "unset"
    /\ verdict' = IF verify_proof(proof[1], merkelize(root), asked)
                  THEN "accept" ELSE "reject"
    /\ UNCHANGED <<root, panic, written, ninserts, proof, asked, embVars, chunkVars>>

\* No embedding call made yet, for an address of pool.
EmbInit(pool) ==
    /\ address \in pool
    /\ item = <<"none", 0>>
    /\ tree_key = <<>>

BasicData ==
    /\ item' = <<"basic_data", 0>>
    /\ tree_key' = <<get_tree_key_for_basic_data(address)>>
    /\ UNCHANGED <<address, treeVars, chunkVars>>

CodeHash ==
    /\ item' = <<"code_hash", 0>>
    /\ tree_key' = <<get_tree_key_for_code_hash(address)>>
    /\ UNCHANGED <<address, treeVars, chunkVars>>

StorageSlot(storage_key) ==
    /\ item' = <<"storage_slot", storage_key>>
    /\ tree_key' = <<get_tree_key_for_storage_slot(address, storage_key)>>
    /\ UNCHANGED <<address, treeVars, chunkVars>>

CodeChunk(chunk_id) ==
    /\ item' = <<"code_chunk", chunk_id>>
    /\ tree_key' = <<get_tree_key_for_code_chunk(address, chunk_id)>>
    /\ UNCHANGED <<address, treeVars, chunkVars>>

\* No chunkify_code call made yet, for a bytecode of pool.
ChunkInit(pool) ==
    /\ code \in pool
    /\ chunks = NoChunks

\* chunkify_code(&code)
Chunkify ==
    /\ chunks = NoChunks
    /\ chunks' = <<chunkify_code(code)>>
    /\ UNCHANGED <<code, treeVars, embVars>>

\* --------------------------------------------------------- specifications

\* The tree: any caller inserting, asking for proofs and verifying them.
Init == TreeInit /\ EmbInit({<<66, 66>>}) /\ ChunkInit({<<>>})

Next ==
    \/ \E key \in Keys, value \in ValuePool : Insert(key, value)
    \/ \E key \in Keys : GetProof(key)
    \/ VerifyProof

Spec == Init /\ [][Next]_vars

\* The embedding: any caller deriving keys for one address.
InitEmbedding == TreeInit /\ EmbInit(AddressPool) /\ ChunkInit({<<>>})

NextEmbedding ==
    \/ BasicData
    \/ CodeHash
    \/ \E storage_key \in 0..MaxStorageKey : StorageSlot(storage_key)
    \/ \E chunk_id \in 0..MaxChunkId : CodeChunk(chunk_id)

SpecEmbedding == InitEmbedding /\ [][NextEmbedding]_vars

\* The chunking: any caller chunking one bytecode.
InitChunkify == TreeInit /\ EmbInit({<<66, 66>>}) /\ ChunkInit(CodePool)

NextChunkify == Chunkify

SpecChunkify == InitChunkify /\ [][NextChunkify]_vars

\* ------------------------------------------------- what the claims speak of

\* The keys inserted so far, and their stems.
WrittenKeys == {k \in Keys : written[k] # NoValue}

WrittenStems == {StemOf(k) : k \in WrittenKeys}

\* The stem leaves of a tree.
RECURSIVE Leaves(_)
Leaves(tree) ==
    IF tree.kind = "none" THEN {}
    ELSE IF tree.kind = "stem" THEN {tree}
    ELSE Leaves(tree.left) \cup Leaves(tree.right)

\* The value a tree stores for a key: the slot of the leaf of the key's stem.
StoredValue(tree, key) ==
    LET ls == {l \in Leaves(tree) : l.stem = StemOf(key)}
    IN  IF ls = {} THEN NoValue
        ELSE (CHOOSE l \in ls : TRUE).values[SubindexOf(key) + 1]

\* get_height of tests/tree_test.rs.
RECURSIVE get_height(_)
get_height(node) ==
    IF node.kind = "none" THEN 0
    ELSE IF node.kind = "stem" THEN 1
    ELSE 1 + Max(get_height(node.left), get_height(node.right))

\* The orderings of a finite set, as sequences.
RECURSIVE Orderings(_)
Orderings(S) ==
    IF S = {} THEN {<<>>}
    ELSE UNION {{<<x>> \o rest : rest \in Orderings(S \ {x})} : x \in S}

\* The tree after inserting, into the tree state st, the keys of `keys` in
\* order, each with the value `written` holds for it; a panic ends the run.
RECURSIVE insert_all(_, _)
insert_all(st, keys) ==
    IF keys = <<>> \/ st.panic # "none" THEN st
    ELSE insert_all(insert(st.root, Head(keys), written[Head(keys)][1]), Tail(keys))

EmptyTree == [root |-> None, panic |-> "none"]

\* ------------------------------------------------------------------ C1

\* C1: Proof round-trip.  For every key k inserted with last value v,
\* get_proof(k) returns a proof whose value is v and which verify_proof
\* accepts against merkelize(), also when the key's stem leaf holds values at
\* other subindices.  Stated of the runs in which no insert panicked.
C1_ProofRoundTrip ==
    (panic = "none" /\ asked # <<>> /\ written[asked] # NoValue) =>
        /\ proof # NoProof
        /\ proof[1].value = written[asked]
        /\ verdict # "reject"

\* ------------------------------------------------------------------ C2

\* C2: Order-independence.  When the inserted keys are pairwise distinct,
\* inserting the same (key, value) pairs in any order gives the tree (shape
\* and root hash) the run has built.
C2_OrderIndependence ==
    (ninserts = Cardinality(WrittenKeys)) =>
        \A keys \in Orderings(WrittenKeys) :
            LET st == insert_all(EmptyTree, keys)
            IN  /\ st.root = root
                /\ merkelize(st.root) = merkelize(root)

\* C2, of the runs in which no ordering of the inserts panics: holds.
OrderIndependenceWithoutPanic ==
    (ninserts = Cardinality(WrittenKeys) /\ panic = "none" /\ asked = <<>>) =>
        \A keys \in Orderings(WrittenKeys) :
            LET st == insert_all(EmptyTree, keys)
            IN  st.panic = "none" =>
                    /\ st.root = root
                    /\ merkelize(st.root) = merkelize(root)

\* ------------------------------------------------------------------ C3

\* C3: Insertion is total.  No insert call aborts: neither the assertion
\* depth < StemBits of insert_rec nor an index into the stem bits fails.
C3_InsertTotal == panic = "none"

\* ------------------------------------------------------------------ C4

\* The sibling hashes a forger can read off a tree: the hash of every node,
\* and the zero block.
RECURSIVE NodeHashes(_)
NodeHashes(tree) ==
    IF tree.kind = "none" THEN {Zero32}
    ELSE IF tree.kind = "stem" THEN {hash_node(tree)}
    ELSE {hash_node(tree)} \cup NodeHashes(tree.left) \cup NodeHashes(tree.right)

\* The proof records offered to verify_proof for a tree: any stem, subindex
\* and optional value, with any path of up to MaxForgedPath such hashes.
ForgedProofs(tree) ==
    LET blocks == NodeHashes(tree) \cup {Zero32}
        paths  == UNION {[1..n -> blocks] : n \in 0..MaxForgedPath}
    IN  [path     : paths,
         value    : {NoValue} \cup {Some(v) : v \in ValuePool},
         subindex : 0..(SubWidth - 1),
         stem     : StemPool]

\* C4: Proof soundness.  Whenever verify_proof accepts a proof record p
\* against merkelize(), the tree holds a stem leaf of stem p.stem whose slot
\* p.subindex holds exactly p.value.  Stated of the non-empty trees.
C4_ProofSoundness ==
    (root # None) =>
        \A p \in ForgedProofs(root) :
            verify_proof(p, merkelize(root), Append(p.stem, p.subindex)) =>
                \E l \in Leaves(root) :
                    /\ l.stem = p.stem
                    /\ l.values[p.subindex + 1] = p.value

\* C4, of the proofs that carry a value: holds.
ProofSoundnessOfPresentValues ==
    (asked = <<>>) =>
        \A p \in ForgedProofs(root) :
            (p.value # NoValue
                /\ verify_proof(p, merkelize(root), Append(p.stem, p.subindex))) =>
                \E l \in Leaves(root) :
                    /\ l.stem = p.stem
                    /\ l.values[p.subindex + 1] = p.value

\* ------------------------------------------------------------------ C5

\* The tree holds, for every key, the value of the key's most recent insert,
\* and is a tree that inserting only those last (key, value) pairs builds.
LastWriterWins ==
    /\ \A k \in Keys : StoredValue(root, k) = written[k]
    /\ \E keys \in Orderings(WrittenKeys) : insert_all(EmptyTree, keys).root = root

\* C5: Last-writer-wins per key.  After every insert call the tree stores
\* each key's most recent value and equals the tree of the last inserts
\* alone, and an insert of a key already inserted leaves the height as it was.
C5_LastWriterWins ==
    [][(ninserts' = ninserts + 1) =>
          /\ LastWriterWins'
          /\ (WrittenKeys' = WrittenKeys => get_height(root') = get_height(root))]_vars

\* C5, of the insert calls that do not panic: holds.
LastWriterWinsWithoutPanic ==
    [][(ninserts' = ninserts + 1 /\ panic' = "none") =>
          /\ LastWriterWins'
          /\ (WrittenKeys' = WrittenKeys => get_height(root') = get_height(root))]_vars

\* ------------------------------------------------------------------ C6

\* What C6 says of the last get_proof call.
AbsentKeyProofs ==
    (asked # <<>>) =>
        /\ (proof = NoProof) <=> (StemOf(asked) \notin WrittenStems)
        /\ (proof # NoProof) =>
              /\ proof[1].stem = StemOf(asked)
              /\ proof[1].subindex = SubindexOf(asked)
              /\ proof[1].value = written[asked]

\* C6: Absent-key proofs.  get_proof(k) returns None iff no inserted key has
\* the stem of k; otherwise it returns a proof of that stem, of the subindex
\* of k, whose value is the value written to that slot (None when the slot
\* was never written).
C6_AbsentKeyProofs == AbsentKeyProofs

\* C6, of the runs in which no insert panicked: holds.
AbsentKeyProofsWithoutPanic == (panic = "none") => AbsentKeyProofs

\* ------------------------------------------------------------------ C7

\* C7: No partial mutation on abort.  An insert call that aborts on the
\* depth assertion leaves self.root as it was before the call.
C7_NoPartialMutation ==
    [][(ninserts' = ninserts + 1 /\ panic' = "depth") => root' = root]_vars

\* ------------------------------------------------------------------ C8

\* Every internal node at or below `tree` (a node at depth `depth`) has a
\* non-empty child, and two stem-leaf children sit on the sides their stems'
\* bit at that depth names.
RECURSIVE InternalNodesOk(_, _)
InternalNodesOk(tree, depth) ==
    IF tree.kind # "internal" THEN TRUE
    ELSE /\ tree.left # None \/ tree.right # None
         /\ (tree.left.kind = "stem" /\ tree.right.kind = "stem") =>
               /\ depth < StemBits
               /\ BitAt(bytes_to_bits(tree.left.stem), depth) = 0
               /\ BitAt(bytes_to_bits(tree.right.stem), depth) = 1
         /\ InternalNodesOk(tree.left, depth + 1)
         /\ InternalNodesOk(tree.right, depth + 1)

\* C8: Internal-node invariant.  In every tree built by insert calls, every
\* internal node has at least one non-empty child, and when both children of
\* an internal node at depth d are stem leaves, the left leaf's stem has bit
\* d = 0 and the right leaf's stem has bit d = 1.
C8_InternalNodeInvariant == InternalNodesOk(root, 0)

\* The internal nodes of a tree.
RECURSIVE InternalNodes(_)
InternalNodes(tree) ==
    IF tree.kind # "internal" THEN {}
    ELSE {tree} \cup InternalNodes(tree.left) \cup InternalNodes(tree.right)

\* A tree of three stems built by a split below an internal node: it has an
\* internal node with two stem leaves and one with an empty child.
C8_Witness ==
    /\ Cardinality(Leaves(root)) = 3
    /\ \E n \in InternalNodes(root) : n.left.kind = "stem" /\ n.right.kind = "stem"
    /\ \E n \in InternalNodes(root) : n.left = None \/ n.right = None

\* ------------------------------------------------------------------ C9

\* The length of the longest common prefix of two bit vectors.
RECURSIVE CommonPrefix(_, _, _)
CommonPrefix(a, b, d) ==
    IF d >= Len(a) \/ d >= Len(b) \/ BitAt(a, d) # BitAt(b, d) THEN d
    ELSE CommonPrefix(a, b, d + 1)

\* The longest common bit prefix over the pairs of distinct inserted stems.
LongestSharedPrefix ==
    LET pairs == {st \in WrittenStems \X WrittenStems : st[1] # st[2]}
        lens  == {CommonPrefix(bytes_to_bits(st[1]), bytes_to_bits(st[2]), 0) :
                     st \in pairs}
    IN  CHOOSE m \in lens : \A x \in lens : x <= m

HeightFormula ==
    get_height(root) =
        IF WrittenStems = {} THEN 0
        ELSE IF Cardinality(WrittenStems) = 1 THEN 1
        ELSE 1 + LongestSharedPrefix + 1

\* C9: Tree height.  After any sequence of inserts the height is 0 for the
\* empty tree, 1 when all inserted keys share one stem, and otherwise
\* 1 + L + 1, L being the longest common bit prefix of two distinct inserted
\* stems.
C9_TreeHeight == HeightFormula

\* C9, of the runs in which no insert panicked: holds.
TreeHeightWithoutPanic == (panic = "none") => HeightFormula

\* ------------------------------------------------------------------ C10

\* The stem of the keys of an address's header: bytes 0..31 of the digest of
\* the address followed by the eight zero bytes of tree_index 0.
HeaderStem(addr) ==
    [kind |-> "prefix31",
     of   |-> [kind |-> "digest", input |-> addr \o <<0, 0, 0, 0, 0, 0, 0, 0>>]]

\* C10: Header-stem clustering.  For every address the keys of the basic
\* data, of the code hash, of the storage slots k < 64 and of the code chunks
\* c < 128 have the header stem, with last byte 0, 1, 64 + k and 128 + c;
\* the keys of storage slot 64 and of code chunk 256 have another stem.
C10_HeaderClustering ==
    (tree_key # <<>>) =>
        LET key  == tree_key[1]
            kind == item[1]
            arg  == item[2]
            hdr  == HeaderStem(address)
        IN  /\ (kind = "basic_data") => (key.stem = hdr /\ key.last = 0)
            /\ (kind = "code_hash") => (key.stem = hdr /\ key.last = 1)
            /\ (kind = "storage_slot" /\ arg < 64) =>
                  (key.stem = hdr /\ key.last = 64 + arg)
            /\ (kind = "code_chunk" /\ arg < 128) =>
                  (key.stem = hdr /\ key.last = 128 + arg)
            /\ (kind = "storage_slot" /\ arg = 64) => key.stem # hdr
            /\ (kind = "code_chunk" /\ arg = 256) => key.stem # hdr

\* The key of the last header storage slot has been derived.
C10_Witness ==
    /\ item = <<"storage_slot", 63>>
    /\ tree_key # <<>>
    /\ tree_key[1].last = 127

\* ---------------------------------------------------------- code chunks

\* The width of the push at an opcode byte, 0 for any other opcode.
PushWidth(op) == IF op \in PUSH1..PUSH32 THEN op - PUSH_OFFSET ELSE 0

\* The positions (0-based) of the opcodes of a bytecode, from position pos:
\* every byte that is not the data of a push before it.
RECURSIVE OpcodePositions(_, _)
OpcodePositions(bytes, pos) ==
    IF pos >= Len(bytes) THEN {}
    ELSE {pos} \cup OpcodePositions(bytes, pos + 1 + PushWidth(bytes[pos + 1]))

\* The code a chunk list covers: the bytecode and its zero padding.
Covered(bytes) ==
    bytes \o zeros((ChunkLen - (Len(bytes) % ChunkLen)) % ChunkLen)

\* Position p holds data of a push whose opcode lies before position start.
IsEarlierPushData(bytes, p, start) ==
    \E q \in OpcodePositions(bytes, 0) :
        /\ q < start
        /\ q < p
        /\ p <= q + PushWidth(bytes[q + 1])

\* The number of bytes of the window of chunk i (0-based) that are data of a
\* push located in an earlier chunk.
LeadingPushData(bytes, i) ==
    Cardinality({p \in (ChunkLen * i)..(ChunkLen * i + ChunkLen - 1) :
                    IsEarlierPushData(bytes, p, ChunkLen * i)})

\* The chunks returned by the call, and their number.
Returned == chunks[1]

\* C11: Chunk leading byte.  Byte 0 of every chunk i returned by
\* chunkify_code is the number of bytes at the start of the chunk's window
\* that are push data of a push located in an earlier chunk; it is between 0
\* and the chunk length, it is 0 for code without a push, and it is 0 when the
\* first byte of the window is an opcode.
C11_ChunkLeadingByte ==
    (chunks # NoChunks) =>
        \A i \in 0..(Len(Returned) - 1) :
            LET lead == Returned[i + 1][1]
            IN  /\ lead = LeadingPushData(Covered(code), i)
                /\ lead \in 0..ChunkLen
                /\ (\A p \in 1..Len(code) : PushWidth(code[p]) = 0) => lead = 0
                /\ (ChunkLen * i \in OpcodePositions(Covered(code), 0))
                      => lead = 0

\* Byte 0 of chunk i is the number of push data bytes from the start of its
\* window to the end of the push, also past the end of the window; capped at
\* the chunk length it is the number C11 speaks of.
ChunkLeadingByteUncapped ==
    (chunks # NoChunks) =>
        \A i \in 0..(Len(Returned) - 1) :
            LET lead == Returned[i + 1][1]
                here == LeadingPushData(Covered(code), i)
            IN  /\ (IF lead > ChunkLen THEN ChunkLen ELSE lead) = here
                /\ lead <= MaxPushWidth
                /\ (lead > ChunkLen) =>
                      PushWidth(Covered(code)[ChunkLen * i]) = MaxPushWidth

\* Bytes 1.. of the chunks from chunk i (1-based) on, in order.
RECURSIVE ChunkBodies(_, _)
ChunkBodies(list, i) ==
    IF i > Len(list) THEN <<>>
    ELSE SubSeq(list[i], 2, Len(list[i])) \o ChunkBodies(list, i + 1)

\* ceil(n / ChunkLen)
ChunksNeeded(n) == (n + ChunkLen - 1) \div ChunkLen

\* C12: Chunk contents round-trip.  For a bytecode of length n chunkify_code
\* returns ceil(n / chunk length) chunks, none for empty code, and bytes 1..
\* of the chunks in order are the code followed only by zeros up to the next
\* multiple of the chunk length.
C12_ChunkRoundTrip ==
    (chunks # NoChunks) =>
        LET n      == Len(code)
            bodies == ChunkBodies(Returned, 1)
        IN  /\ Len(Returned) = ChunksNeeded(n)
            /\ (n = 0) => Returned = <<>>
            /\ \A i \in 1..Len(Returned) : Len(Returned[i]) = ChunkLen + 1
            /\ Len(bodies) = ChunkLen * ChunksNeeded(n)
            /\ SubSeq(bodies, 1, n) = code
            /\ \A j \in (n + 1)..Len(bodies) : bodies[j] = 0

\* A bytecode of one chunk and a byte has been chunked into two chunks.
C12_Witness ==
    /\ chunks # NoChunks
    /\ Len(code) = ChunkLen + 1
    /\ code[ChunkLen + 1] # 0
    /\ Len(Returned) = 2
    /\ Returned[2][2] = code[ChunkLen + 1]

\* ------------------------------------------------------------ proof paths

\* The stems of the stem leaves of a tree.
LeafStems(tree) == {l.stem : l \in Leaves(tree)}

\* The children not taken on the descent from a node to the leaf of a stem
\* that is in it, from the node down.
RECURSIVE SiblingsTo(_, _)
SiblingsTo(tree, stem) ==
    IF tree.kind # "internal" THEN <<>>
    ELSE IF stem \in LeafStems(tree.left)
    THEN <<tree.right>> \o SiblingsTo(tree.left, stem)
    ELSE <<tree.left>> \o SiblingsTo(tree.right, stem)

\* C13: Proof path index arithmetic.  For every key whose stem is in the
\* tree, get_proof returns a path as long as the leaf is deep, path[j] is the
\* hash of the child not taken at depth j (zero when absent), and folding the
\* leaf's hash as merkelize computes it with the path in reverse, by the stem
\* bits len(path)-1-i, gives merkelize().
C13_ProofPath ==
    (asked # <<>> /\ StemOf(asked) \in LeafStems(root)) =>
        /\ proof # NoProof
        /\ LET stem     == StemOf(asked)
               leaf     == CHOOSE l \in Leaves(root) : l.stem = stem
               siblings == SiblingsTo(root, stem)
               path     == proof[1].path
           IN  /\ Len(path) = Len(siblings)
               /\ \A j \in 1..Len(path) :
                     /\ path[j] = merkelize_rec(siblings[j])
                     /\ (siblings[j] = None) => path[j] = Zero32
               /\ verify_fold(merkelize_rec(leaf), path,
                              bytes_to_bits_static(stem), 0) = merkelize(root)

\* A proof has been returned for a leaf four levels down whose path has an
\* absent and a present sibling and whose stem has a 0 and a 1 bit on it.
C13_Witness ==
    /\ asked # <<>>
    /\ proof # NoProof
    /\ Len(proof[1].path) = StemBits
    /\ \E j \in 1..StemBits : proof[1].path[j] = Zero32
    /\ \E j \in 1..StemBits : proof[1].path[j] # Zero32
    /\ \E j \in 1..StemBits : bytes_to_bits(StemOf(asked))[j] = 1
    /\ \E j \in 1..StemBits : bytes_to_bits(StemOf(asked))[j] = 0

\* ---------------------------------------------------------- insert's frame

\* The value of an Option<MerkleProof>, none when there is no proof.
ProofValue(p) == IF p = NoProof THEN NoValue ELSE p[1].value

\* The step, an insert call that returned, is insert(key, value).
IsSuccessfulInsert(key, value) ==
    /\ written' = [written EXCEPT ![key] = Some(value)]
    /\ root' = insert(root, key, value).root

\* From a get_proof result before a step to the one after it, neither the
\* stem nor the value goes from present to absent.
NothingDisappears(before, after) ==
    /\ (before # NoProof) => (after # NoProof)
    /\ (ProofValue(before) # NoValue) => (ProofValue(after) # NoValue)

\* C14: Frame of insert.  A successful insert(k, v) changes only the slot of
\* k: for every other key the presence of its stem and the value get_proof
\* returns for it are the same before and after, also when the insert splits
\* a stem leaf; no stem or value disappears.
C14_InsertFrame ==
    [][(ninserts' = ninserts + 1 /\ panic' = "none") =>
       \A key \in Keys, value \in ValuePool :
          IsSuccessfulInsert(key, value) =>
              \A k \in Keys :
                  LET before == get_proof(root, k)
                      after  == get_proof(root', k)
                  IN  /\ (k # key) =>
                            /\ (after = NoProof) = (before = NoProof)
                            /\ ProofValue(after) = ProofValue(before)
                      /\ NothingDisappears(before, after)]_vars

\* C14, amended: as C14, but the presence of the stem of another key is the
\* same only for a key of another stem; a key with the stem of k has its stem
\* present after the call, whether or not it was present before.
C14_InsertFrameAmended ==
    [][(ninserts' = ninserts + 1 /\ panic' = "none") =>
       \A key \in Keys, value \in ValuePool :
          IsSuccessfulInsert(key, value) =>
              \A k \in Keys :
                  LET before == get_proof(root, k)
                      after  == get_proof(root', k)
                  IN  /\ (k # key) =>
                            ProofValue(after) = ProofValue(before)
                      /\ (StemOf(k) # StemOf(key)) =>
                            (after = NoProof) = (before = NoProof)
                      /\ (StemOf(k) = StemOf(key)) => after # NoProof
                      /\ (k = key) => ProofValue(after) = Some(value)
                      /\ NothingDisappears(before, after)]_vars

\* Three successful inserts have left two stem leaves under internal nodes,
\* one of them with both of its slots written: a leaf was split and a slot
\* was added to an existing leaf.
C14_Witness ==
    /\ panic = "none"
    /\ ninserts = 3
    /\ asked = <<>>
    /\ root.kind = "internal"
    /\ Cardinality(Leaves(root)) = 2
    /\ \E l \in Leaves(root) : \A i \in 1..SubWidth : l.values[i] # NoValue

\* ------------------------------------------------------------ key binding

\* C15: Key binding of verification.  verify_proof(proof, root, key) returns
\* true only if proof.stem and proof.subindex are the stem and the subindex
\* of key: the proof returned for one key is not accepted with another key.
C15_KeyBinding ==
    (proof # NoProof) =>
        \A key \in Keys :
            verify_proof(proof[1], merkelize(root), key) =>
                /\ proof[1].stem = StemOf(key)
                /\ proof[1].subindex = SubindexOf(key)

\* ------------------------------------------------- key-space disjointness

\* The state items of one address the callers derive keys for.
Items ==
    {<<"basic_data", 0>>, <<"code_hash", 0>>}
        \cup {<<"storage_slot", k>> : k \in 0..MaxStorageKey}
        \cup {<<"code_chunk", c>> : c \in 0..MaxChunkId}

\* The tree key of a state item of an address.
KeyOfItem(addr, it) ==
    IF it[1] = "basic_data" THEN get_tree_key_for_basic_data(addr)
    ELSE IF it[1] = "code_hash" THEN get_tree_key_for_code_hash(addr)
    ELSE IF it[1] = "storage_slot"
    THEN get_tree_key_for_storage_slot(addr, it[2])
    ELSE get_tree_key_for_code_chunk(addr, it[2])

\* C16: Key-space disjointness of the embedding.  For one address, the key
\* derived for a state item (basic data, code hash, a storage slot, a code
\* chunk) is the key of no other state item.
C16_KeySpaceDisjoint ==
    (tree_key # <<>>) =>
        \A other \in Items \ {item} : KeyOfItem(address, other) # tree_key[1]

\* Two state items of one address share a key only when one is a storage
\* slot k >= 64 and the other the code chunk k + 128.
KeySpaceDisjointButMainStorage ==
    (tree_key # <<>>) =>
        \A other \in Items \ {item} :
            (KeyOfItem(address, other) = tree_key[1]) =>
                \E k \in 64..MaxStorageKey :
                    {item, other} = {<<"storage_slot", k>>, <<"code_chunk", k + 128>>}

=============================================================================
